---- MODULE Spec2Model ----
(***************************************************************************)
(* Server-side rendering with React Router: the Express handler, the       *)
(* Data Loader (fetchPopularRepos), the shared route table and the Grid    *)
(* component, in the browser and on the server.                            *)
(*                                                                         *)
(* Strings that are matched or split (request URLs, route patterns) are    *)
(* sequences of tokens: "/" and "?" are the two characters the code        *)
(* treats specially, every other token is a non-empty run of ordinary      *)
(* characters.                                                             *)
(***************************************************************************)
EXTENDS Naturals, Sequences, FiniteSets

\* ------------------------------------------------------------------ bounds
MaxUrlLen == 5      \* tokens in a request URL
MaxItems == 1       \* records in a response's items list
MaxCalls == 3       \* Data Loader calls issued by the browser

\* ------------------------------------------------------- JavaScript values
Undefined == [t |-> "undefined"]
Null == [t |-> "null"]
List(items) == [t |-> "list", items |-> items]

\* the items list the search API returns for a language key: n records,
\* each carrying the language it was queried for
ItemsOf(lang, n) == [i \in 1..n |-> [name |-> i, language |-> lang]]

\* JavaScript truthiness of a data value: an array (even empty) is truthy
Truthy(v) == v.t = "list"

\* ------------------------------------------------------------ URL strings
Words == {"popular", "javascript", "rust"}
Tokens == {"/", "?"} \cup Words

RECURSIVE SeqsUpTo(_, _)
SeqsUpTo(S, n) ==
    IF n = 0 THEN {<<>>}
    ELSE LET shorter == SeqsUpTo(S, n - 1)
         IN shorter \cup {Append(s, x) : s \in {q \in shorter : Len(q) = n - 1}, x \in S}

\* every request URL Express can hand to the handler starts with "/"
RequestUrls == {<<"/">> \o s : s \in SeqsUpTo(Tokens, MaxUrlLen - 1)}

\* index of the first occurrence of c in s, or Len(s) + 1
RECURSIVE IndexOf(_, _, _)
IndexOf(s, c, i) ==
    IF i > Len(s) THEN i
    ELSE IF s[i] = c THEN i
    ELSE IndexOf(s, c, i + 1)

\* Express req.path / history parsePath(...).pathname: the URL up to "?"
Pathname(url) == SubSeq(url, 1, IndexOf(url, "?", 1) - 1)

\* index of the last occurrence of c in s, or 0
RECURSIVE LastIndexOf(_, _, _)
LastIndexOf(s, c, i) ==
    IF i = 0 THEN 0
    ELSE IF s[i] = c THEN i
    ELSE LastIndexOf(s, c, i - 1)

\* path.split('/').pop()
SplitPop(path) == SubSeq(path, LastIndexOf(path, "/", Len(path)) + 1, Len(path))

\* ------------------------------------------------------------ route table
routes ==
    << [path |-> <<"/">>, exact |-> TRUE, component |-> "Home",
        fetchInitialData |-> FALSE],
       [path |-> <<"/", "popular", "/", ":id">>, exact |-> FALSE,
        component |-> "Grid", fetchInitialData |-> TRUE] >>

NoParams == <<>>
Fail == [ok |-> FALSE, id |-> NoParams, rest |-> <<>>]

\* the compiled pattern run over s: literal tokens must be equal, ":id"
\* takes the run of tokens up to the next "/" ([^\/]+?), at least one
RECURSIVE Consume(_, _, _)
Consume(pat, s, id) ==
    IF pat = <<>> THEN [ok |-> TRUE, id |-> id, rest |-> s]
    ELSE IF Head(pat) = ":id"
         THEN LET n == IndexOf(s, "/", 1) - 1
              IN IF n = 0 THEN Fail
                 ELSE Consume(Tail(pat), SubSeq(s, n + 1, Len(s)), SubSeq(s, 1, n))
    ELSE IF s # <<>> /\ Head(s) = Head(pat)
         THEN Consume(Tail(pat), Tail(s), id)
    ELSE Fail

\* react-router matchPath(pathname, {path, exact}): path-to-regexp with
\* strict = false (one optional trailing "/") and end = exact; null when
\* nothing matches
matchPath(pathname, route) ==
    LET pat == IF route.path # <<>> /\ route.path[Len(route.path)] = "/"
               THEN SubSeq(route.path, 1, Len(route.path) - 1)
               ELSE route.path
        r == Consume(pat, pathname, NoParams)
        rest == IF r.rest = <<"/">> THEN <<>> ELSE r.rest
    IN IF ~r.ok THEN Fail
       ELSE IF route.exact
            THEN IF rest = <<>> THEN r ELSE Fail
       ELSE IF rest = <<>> \/ Head(rest) = "/" THEN r ELSE Fail

\* routes.find((route) => matchPath(url, route)) || {}: index of the first
\* matching descriptor, 0 for the empty object
RECURSIVE FindRoute(_, _)
FindRoute(url, i) ==
    IF i > Len(routes) THEN 0
    ELSE IF matchPath(url, routes[i]).ok THEN i
    ELSE FindRoute(url, i + 1)

\* ------------------------------------------------------------ Data Loader
\* what the network does with one GET of the search endpoint
FetchOutcomes ==
    {[kind |-> k, n |-> 0] : k \in {"neterr", "badjson", "nullbody", "noitems"}}
    \cup {[kind |-> "ok", n |-> n] : n \in 0..MaxItems}

Fulfilled(v) == [state |-> "fulfilled", value |-> v]
Rejected == [state |-> "rejected", value |-> Undefined]

\* fetch(encodedURI): rejects on a transport failure, else the response
Fetch(language, o) ==
    IF o.kind = "neterr" THEN Rejected ELSE Fulfilled([lang |-> language, o |-> o])

\* .then((data) => data.json()): rejects when the body is not JSON
ThenJson(p) ==
    IF p.state = "rejected" THEN p
    ELSE IF p.value.o.kind = "badjson" THEN Rejected
    ELSE Fulfilled(p.value)

\* .then((repos) => repos.items): throws on a null body, undefined when the
\* body has no items field
ThenItems(p) ==
    IF p.state = "rejected" THEN p
    ELSE IF p.value.o.kind = "nullbody" THEN Rejected
    ELSE IF p.value.o.kind = "noitems" THEN Fulfilled(Undefined)
    ELSE Fulfilled(List(ItemsOf(p.value.lang, p.value.o.n)))

\* .catch((error) => { console.warn(error); return null })
CatchNull(p) == IF p.state = "rejected" THEN Fulfilled(Null) ELSE p

\* a variant without the .catch: a failed fetch leaves the promise rejected
fetchPopularReposNoCatch(language, o) ==
    [sent |-> <<language>>,
     promise |-> ThenItems(ThenJson(Fetch(language, o)))]

\* fetchPopularRepos(language = 'all') once the network has answered with o:
\* the outbound requests it made and the promise it returned
fetchPopularRepos(language, o) ==
    [sent |-> <<language>>,
     promise |-> CatchNull(ThenItems(ThenJson(Fetch(language, o))))]

\* routes[2].fetchInitialData: (path = '') => fetchPopularRepos(path.split('/').pop())
fetchInitialData(path) == SplitPop(path)

\* --------------------------------------------------------------- the Grid
NoWindow == [has |-> FALSE, value |-> Undefined]

\* a variant that reads the global slot and leaves it in place
GridConstructorKeepsSlot(isBrowser, win, staticContext) ==
    LET repos == IF isBrowser
                 THEN (IF win.has THEN win.value ELSE Undefined)
                 ELSE staticContext.data
    IN [state |-> [repos |-> repos, loading |-> ~Truthy(repos)],
        window |-> win]

\* Grid constructor: the initial state and what is left of the global slot
GridConstructor(isBrowser, win, staticContext) ==
    LET repos == IF isBrowser
                 THEN (IF win.has THEN win.value ELSE Undefined)
                 ELSE staticContext.data
    IN [state |-> [repos |-> repos, loading |-> ~Truthy(repos)],
        window |-> IF isBrowser THEN NoWindow ELSE win]

\* Grid.render: the LOADING heading, or one entry per record; repos.map
\* throws a TypeError when repos is null or undefined
GridRender(state) ==
    IF state.loading = TRUE THEN [v |-> "Loading"]
    ELSE IF state.repos.t = "list" THEN [v |-> "Ready", entries |-> state.repos.items]
    ELSE [v |-> "Throw"]

\* App.render below the NavBar: the Switch takes the first route whose path
\* matches the router's location, else the NoMatch route
SwitchComponent(pathname) ==
    LET i == FindRoute(pathname, 1)
    IN IF i = 0 THEN "NoMatch" ELSE routes[i].component

SwitchParams(pathname) == matchPath(pathname, routes[FindRoute(pathname, 1)]).id

\* ----------------------------------------------------------- Server Entry
\* <StaticRouter location='req.url' context={{}}>: the location is the
\* string literal, the context an empty object (its data is undefined)
StaticLocation(reqUrl) == <<"req.url">>
StaticContext(data) == [data |-> Undefined]

\* renderToString of the App under the StaticRouter
renderToString(reqUrl, data) ==
    LET pathname == Pathname(StaticLocation(reqUrl))
        c == SwitchComponent(pathname)
    IN IF c = "Grid"
       THEN GridRender(GridConstructor(FALSE, NoWindow, StaticContext(data)).state)
       ELSE [v |-> c]

\* serialize(data) as written into the script tag, and the value the
\* browser's evaluation of that script assigns to the slot
serialize(v) ==
    IF v.t = "list" THEN [lit |-> "array", elems |-> v.items]
    ELSE [lit |-> v.t, elems |-> <<>>]
EvalScript(s) ==
    IF s.lit = "array" THEN List(s.elems)
    ELSE IF s.lit = "null" THEN Null
    ELSE Undefined

\* ------------------------------------------------------------------ state
VARIABLES
    spc,            \* the handler's position: idle, fetching, resolved, sent
    url,            \* req.url of the request being handled
    activeRoute,    \* index into routes of the matched descriptor, 0 for {}
    srvLang,        \* language keys of the Data Loader calls the handler made
    promise,        \* the handler's promise once settled
    response,       \* what the handler ended in: the document or next(error)
    bpc,            \* the browser: none, loaded, running, crashed
    window,         \* the global slot window.__INITIAL_DATA__
    dom,            \* the server-rendered view inside the mount element
    location,       \* the browser router's pathname
    homeInHistory,  \* "/" is an entry of the session history
    grid,           \* the Grid instance: props.match.params.id and its state
    view,           \* what the browser's Switch currently shows
    mismatch,       \* hydration found the first render different from dom
    everConstructed,\* a Grid has been constructed in this page
    pending,        \* the Grid's Data Loader calls still unresolved
    ncalls,         \* Data Loader calls the browser has issued
    lastIssued,     \* language key of the latest call the browser issued
    lastSettle      \* the Data Loader call that settled last

srvVars == <<spc, url, activeRoute, srvLang, promise, response>>
pageVars == <<bpc, window, dom, location, homeInHistory, mismatch>>
gridVars == <<grid, view, everConstructed, pending, ncalls, lastIssued>>
vars == <<srvVars, pageVars, gridVars, lastSettle>>

NoUrl == <<>>
NoPromise == [state |-> "none", value |-> Undefined]
NoResponse == [kind |-> "none"]
NoView == [v |-> "none"]
NoGridState == [mounted |-> FALSE, id |-> NoParams, repos |-> Undefined,
                loading |-> FALSE, awaiting |-> 0]
NoSettle == [by |-> "none"]

Init ==
    /\ spc = "idle" /\ url = NoUrl /\ activeRoute = 0 /\ srvLang = <<>>
    /\ promise = NoPromise /\ response = NoResponse
    /\ bpc = "none" /\ window = NoWindow /\ dom = NoView /\ location = NoUrl
    /\ homeInHistory = FALSE /\ grid = NoGridState /\ view = NoView
    /\ mismatch = FALSE /\ everConstructed = FALSE /\ pending = <<>>
    /\ ncalls = 0 /\ lastIssued = NoParams /\ lastSettle = NoSettle

\* what a settled Data Loader call leaves behind
Settled(by, cid, lang, o, live, superseded) ==
    [by |-> by, cid |-> cid, lang |-> lang, o |-> o, live |-> live,
     superseded |-> superseded, result |-> fetchPopularRepos(lang, o)]

\* ------------------------------------------------------ app.get('*', ...)
\* the synchronous part: find the active route, start its Data Loader with
\* req.path or take Promise.resolve()
Request(u) ==
    /\ spc = "idle" /\ bpc = "none" /\ response = NoResponse
    /\ url' = u
    /\ activeRoute' = FindRoute(u, 1)
    /\ IF activeRoute' # 0 /\ routes[activeRoute'].fetchInitialData
       THEN /\ srvLang' = <<fetchInitialData(Pathname(u))>>
            /\ promise' = NoPromise
            /\ spc' = "fetching"
       ELSE /\ srvLang' = <<>>
            /\ promise' = Fulfilled(Undefined)
            /\ spc' = "resolved"
    /\ UNCHANGED <<response, pageVars, gridVars, lastSettle>>

\* the network answers the handler's Data Loader call
ServerSettle(o) ==
    /\ spc = "fetching"
    /\ lastSettle' = Settled("server", 0, srvLang[1], o, TRUE, FALSE)
    /\ promise' = lastSettle'.result.promise
    /\ spc' = "resolved"
    /\ UNCHANGED <<url, activeRoute, srvLang, response, pageVars, gridVars>>

\* promise.then((data) => { renderToString ...; res.send(...) }).catch(next)
ServerRespond ==
    /\ spc = "resolved"
    /\ LET markup == renderToString(url, promise.value)
       IN response' =
            IF promise.state = "fulfilled" /\ markup.v # "Throw"
            THEN [kind |-> "document", markup |-> markup,
                  script |-> serialize(promise.value)]
            ELSE [kind |-> "error"]
    /\ spc' = "sent"
    /\ UNCHANGED <<url, activeRoute, srvLang, promise, pageVars, gridVars, lastSettle>>

\* ---------------------------------------------------------- Browser Entry
\* the params of the Navbar's links that the model follows
Languages == {"javascript", "rust"}
NavTargets == {<<"/", "popular", "/", w>> : w \in Languages}

\* a variant that fetches at every mount
componentDidMountAlways(g) == TRUE

\* componentDidMount: fetch when the constructor found no repos
componentDidMount(g) == ~Truthy(g.repos)

\* componentWillReceiveProps: fetch when the route parameter id changed
componentWillReceiveProps(g, nextId) == nextId # g.id

\* fetchRepos(lang), first half: setState({loading: true}) and the call
\* this.props.fetchInitialData(lang), numbered cid
fetchRepos(g, lang, cid) ==
    [grid |-> [g EXCEPT !.loading = TRUE,
                        !.awaiting = IF g.loading THEN g.awaiting ELSE cid],
     call |-> [cid |-> cid, lang |-> fetchInitialData(lang), live |-> TRUE]]

\* a variant that drops the response of a call superseded by a newer id
fetchReposThenDropsStale(g, lang, repos) ==
    IF lang = g.id THEN [g EXCEPT !.repos = repos, !.loading = FALSE] ELSE g

\* fetchRepos(lang), second half: .then((repos) => setState({repos, loading: false}))
fetchReposThen(g, lang, repos) == [g EXCEPT !.repos = repos, !.loading = FALSE]

\* a Grid newly constructed for params.id = id, before its first render
NewGrid(id, win) ==
    LET c == GridConstructor(TRUE, win, [data |-> Undefined])
    IN [mounted |-> TRUE, id |-> id, repos |-> c.state.repos,
        loading |-> c.state.loading, awaiting |-> 0]

AllDead(calls) == [i \in 1..Len(calls) |-> [calls[i] EXCEPT !.live = FALSE]]

\* the document arrives: the inline script fills the slot, the mount element
\* holds the server's markup, the deferred bundle has not run yet
\* (the handler has returned: its request-local values are dropped)
LoadPage ==
    /\ spc = "sent" /\ response.kind = "document" /\ bpc = "none"
    /\ window' = [has |-> TRUE, value |-> EvalScript(response.script)]
    /\ dom' = response.markup
    /\ location' = Pathname(url)
    /\ homeInHistory' = (SwitchComponent(location') = "Home")
    /\ bpc' = "loaded"
    /\ spc' = "idle" /\ url' = NoUrl /\ activeRoute' = 0 /\ srvLang' = <<>>
    /\ promise' = NoPromise /\ response' = NoResponse
    /\ UNCHANGED <<mismatch, gridVars, lastSettle>>

\* mounting a Grid for the location: constructor, render, componentDidMount
MountGrid(path) ==
    LET g == NewGrid(SwitchParams(path), window)
        f == fetchRepos(g, g.id, ncalls + 1)
    IN /\ window' = GridConstructor(TRUE, window, [data |-> Undefined]).window
       /\ everConstructed' = TRUE
       /\ IF componentDidMount(g)
          THEN /\ ncalls < MaxCalls
               /\ grid' = f.grid
               /\ pending' = Append(pending, f.call)
               /\ ncalls' = ncalls + 1
               /\ lastIssued' = f.call.lang
               /\ view' = GridRender(f.grid)
          ELSE /\ grid' = g
               /\ view' = GridRender(g)
               /\ UNCHANGED <<pending, ncalls, lastIssued>>

\* hydrate(<BrowserRouter><App .../></BrowserRouter>, ...): the first client
\* render is compared with the server's markup
Hydrate ==
    /\ bpc = "loaded"
    /\ bpc' = "running"
    /\ LET c == SwitchComponent(location)
       IN IF c = "Grid"
          THEN /\ MountGrid(location)
               /\ mismatch' = (GridRender(NewGrid(SwitchParams(location), window)) # dom)
          ELSE /\ view' = [v |-> c]
               /\ mismatch' = (view' # dom)
               /\ UNCHANGED <<window, grid, everConstructed, pending, ncalls, lastIssued>>
    /\ UNCHANGED <<srvVars, dom, location, homeInHistory, lastSettle>>

\* a NavLink is followed, or the history goes back to "/": the router
\* re-renders the App at the new location
Navigate(target) ==
    /\ bpc = "running"
    /\ target \in NavTargets \/ (homeInHistory /\ target = <<"/">>)
    /\ location' = target
    /\ LET c == SwitchComponent(target)
       IN IF c = "Grid" /\ grid.mounted
          THEN LET nextId == SwitchParams(target)
                   f == fetchRepos(grid, nextId, ncalls + 1)
               IN IF componentWillReceiveProps(grid, nextId)
                  THEN /\ ncalls < MaxCalls
                       /\ grid' = [f.grid EXCEPT !.id = nextId]
                       /\ pending' = Append(pending, f.call)
                       /\ ncalls' = ncalls + 1
                       /\ lastIssued' = f.call.lang
                       /\ view' = GridRender(grid')
                       /\ UNCHANGED <<window, everConstructed>>
                  ELSE UNCHANGED <<gridVars, window>>
          ELSE IF c = "Grid"
          THEN MountGrid(target)
          ELSE /\ grid' = [grid EXCEPT !.mounted = FALSE]
               /\ pending' = AllDead(pending)
               /\ view' = [v |-> c]
               /\ UNCHANGED <<window, everConstructed, ncalls, lastIssued>>
    /\ UNCHANGED <<srvVars, bpc, dom, homeInHistory, mismatch, lastSettle>>

Remove(calls, i) == SubSeq(calls, 1, i - 1) \o SubSeq(calls, i + 1, Len(calls))

\* the network answers the i-th unresolved call of the browser; the .then
\* callback sets the state of its Grid (nothing, if that Grid is unmounted)
\* and the Grid renders again; a render that throws unmounts the whole tree
Resolve(i, o) ==
    /\ bpc \in {"running", "crashed"}
    /\ i \in 1..Len(pending)
    /\ LET c == pending[i]
           rest == Remove(pending, i)
           superseded == \E k \in (c.cid + 1)..ncalls :
                            \A j \in 1..Len(pending) : pending[j].cid # k
           s == Settled("browser", c.cid, c.lang, o, c.live, superseded)
           p == s.result.promise
           g == fetchReposThen(grid, c.lang, p.value)
       IN /\ lastSettle' = s
          /\ IF c.live /\ p.state = "fulfilled"
             THEN IF GridRender(g).v = "Throw"
                  THEN /\ grid' = [g EXCEPT !.mounted = FALSE]
                       /\ view' = GridRender(g)
                       /\ pending' = AllDead(rest)
                       /\ bpc' = "crashed"
                  ELSE /\ grid' = g
                       /\ view' = GridRender(g)
                       /\ pending' = rest
                       /\ bpc' = bpc
             ELSE /\ pending' = rest
                  /\ UNCHANGED <<grid, view, bpc>>
    /\ UNCHANGED <<srvVars, window, dom, location, homeInHistory, mismatch,
                   everConstructed, ncalls, lastIssued>>

Next ==
    \/ (spc = "idle" /\ bpc = "none" /\ \E u \in RequestUrls : Request(u))
    \/ \E o \in FetchOutcomes : ServerSettle(o)
    \/ ServerRespond
    \/ LoadPage
    \/ Hydrate
    \/ \E t \in NavTargets \cup {<<"/">>} : Navigate(t)
    \/ \E i \in 1..Len(pending), o \in FetchOutcomes : Resolve(i, o)

Spec == Init /\ [][Next]_vars

\* ================================================================ claims
LivePending == {i \in 1..Len(pending) : pending[i].live}
GridReady == grid.mounted /\ grid.loading = FALSE
GridLoading == grid.mounted /\ grid.loading = TRUE
IdChanges == grid.mounted /\ grid'.mounted /\ grid'.id # grid.id
Constructs == ~grid.mounted /\ grid'.mounted

\* the id change of a Ready Grid issues one call, keyed to the new id
C1_OneCallPerChange ==
    [][(GridReady /\ IdChanges) =>
         /\ ncalls' = ncalls + 1
         /\ Len(pending') = Len(pending) + 1
         /\ lastIssued' = grid'.id
         /\ grid'.loading = TRUE
         /\ grid'.awaiting = ncalls']_vars
\* loading goes back to false only by the call issued on leaving Ready
C1_ReadyOnlyByThatCall ==
    [][(GridLoading /\ grid.awaiting # 0 /\ grid'.loading = FALSE) =>
         lastSettle'.cid = grid.awaiting]_vars
\* C1: a Ready Grid whose route parameter id changes issues exactly one new
\* Data Loader call, keyed to the new id, and becomes Loading; its loading
\* flag goes back to false only when that very call resolves.
C1_Claim == C1_OneCallPerChange /\ C1_ReadyOnlyByThatCall

\* C2: after a Data Loader call of the Grid resolved to null the Grid shows
\* its Loading/empty state and render does not throw; no Grid state has
\* loading = false with absent repos.
C2_Claim ==
    /\ view.v # "Throw"
    /\ everConstructed => ~(grid.loading = FALSE /\ ~Truthy(grid.repos))

\* the path of the request being handled matches no route descriptor
RequestPathUnmatched == url # NoUrl /\ FindRoute(Pathname(url), 1) = 0
\* C3: for a request whose path matches no entry of the route table the
\* server invokes no Data Loader, resolves with absent data and renders the
\* not-found view; a Data Loader runs only for a request whose first
\* matching descriptor carries one.
C3_Claim ==
    /\ RequestPathUnmatched =>
         /\ srvLang = <<>>
         /\ spc \in {"resolved", "sent"} => promise = Fulfilled(Undefined)
         /\ spc = "sent" =>
              /\ response.kind = "document"
              /\ response.markup.v = "NoMatch"
    /\ srvLang # <<>> =>
         /\ FindRoute(Pathname(url), 1) # 0
         /\ routes[FindRoute(Pathname(url), 1)].fetchInitialData

\* C4: the first Grid constructed reads the global slot and deletes it; from
\* then on the slot is absent, and every Grid constructed later starts with
\* no data and in Loading.
C4_Theorem ==
    /\ [](everConstructed => ~window.has)
    /\ [][(Constructs /\ ~everConstructed) =>
             /\ grid'.repos = (IF window.has THEN window.value ELSE Undefined)
             /\ ~window'.has]_vars
    /\ [][(Constructs /\ everConstructed) =>
             /\ grid'.repos = Undefined
             /\ grid'.loading = TRUE
             /\ ~window'.has]_vars
\* a second Grid instance is mounted: a call of an earlier one is orphaned
C4_Witness ==
    /\ GridLoading /\ grid.repos = Undefined /\ ~window.has
    /\ \E i \in 1..Len(pending) : ~pending[i].live

\* C5: the view the server rendered is the view of the browser's first
\* render from the data of the global slot (no rehydration mismatch).
C5_Claim == mismatch = FALSE

\* C6: a Data Loader call makes one outbound request and its promise is
\* always fulfilled: with the items of the response on success, with null on
\* a transport or parse failure.
C6_Theorem ==
    lastSettle.by # "none" =>
        /\ Len(lastSettle.result.sent) = 1
        /\ lastSettle.result.sent[1] = lastSettle.lang
        /\ lastSettle.result.promise.state = "fulfilled"
        /\ lastSettle.o.kind = "ok" =>
             lastSettle.result.promise.value
                 = [t |-> "list", items |-> ItemsOf(lastSettle.lang, lastSettle.o.n)]
        /\ lastSettle.o.kind = "noitems" =>
             lastSettle.result.promise.value = Undefined
        /\ lastSettle.o.kind \in {"neterr", "badjson", "nullbody"} =>
             lastSettle.result.promise.value = Null
C6_Witness ==
    /\ lastSettle.by = "browser"
    /\ lastSettle.o.kind = "neterr"
    /\ lastSettle.result.promise = Fulfilled(Null)

\* C7: a request ends either in the complete document or in the error path;
\* a Data Loader that resolved to null still ends in the document, with the
\* view in its Loading state; the error path is taken only when rendering
\* throws.
C7_Claim ==
    spc = "sent" =>
        /\ response.kind \in {"document", "error"}
        /\ (srvLang # <<>> /\ promise = Fulfilled(Null)) =>
             /\ response.kind = "document"
             /\ response.markup.v = "Loading"
        /\ response.kind = "error" => renderToString(url, promise.value).v = "Throw"

\* C8: while a Data Loader call of the mounted Grid is unresolved the Grid
\* is Loading.
C8_Claim == (grid.mounted /\ LivePending # {}) => grid.loading = TRUE

\* the call that settled last was for another id than the Grid's current one
\* and a call issued after it had resolved before it
StaleSettledLast ==
    /\ grid.mounted /\ LivePending = {}
    /\ lastSettle.by = "browser" /\ lastSettle.live /\ lastSettle.superseded
    /\ lastSettle.o.kind = "ok"
    /\ lastSettle.lang # grid.id
\* C9: a call for A that was superseded by a call for B and resolves after
\* it overwrites the newer response: the Grid ends Ready showing the
\* repositories of A while its route parameter is B.
C9_Theorem ==
    StaleSettledLast =>
        /\ grid.loading = FALSE
        /\ grid.repos = List(ItemsOf(lastSettle.lang, lastSettle.o.n))
        /\ view = [v |-> "Ready", entries |-> ItemsOf(lastSettle.lang, lastSettle.o.n)]
C9_Witness ==
    /\ StaleSettledLast /\ lastSettle.o.n > 0
    /\ grid.loading = FALSE
    /\ \E i \in 1..Len(grid.repos.items) : grid.repos.items[i].language # grid.id

\* the values a Data Loader can hand to a Grid
DataValues == {Undefined, Null} \cup {List(ItemsOf(<<"javascript">>, n)) : n \in 0..MaxItems}
SlotData == IF window.has THEN window.value ELSE Undefined
\* C10: a Grid starts Ready exactly when data was supplied at mount, else
\* Loading; mounted in the browser without data it issues exactly one call
\* keyed to its id, mounted with data it issues none until the id changes.
C10_Theorem ==
    /\ \A d \in DataValues :
         /\ GridConstructor(FALSE, NoWindow, [data |-> d]).state.loading = ~Truthy(d)
         /\ GridConstructor(TRUE, [has |-> TRUE, value |-> d], [data |-> Undefined]).state.loading
              = ~Truthy(d)
    /\ [][Constructs =>
             /\ grid'.loading = ~Truthy(SlotData)
             /\ view'.v = (IF Truthy(SlotData) THEN "Ready" ELSE "Loading")
             /\ ~Truthy(SlotData) =>
                  /\ ncalls' = ncalls + 1
                  /\ Len(pending') = Len(pending) + 1
                  /\ pending'[Len(pending')].lang = grid'.id
                  /\ lastIssued' = grid'.id
             /\ Truthy(SlotData) =>
                  /\ grid'.repos = SlotData
                  /\ ncalls' = ncalls /\ pending' = pending]_vars
    /\ [][(grid.mounted /\ grid'.mounted /\ ncalls' # ncalls) => grid'.id # grid.id]_vars
\* a Grid mounted from the rehydration payload, Ready, no call issued
C10_Witness ==
    /\ GridReady /\ ncalls = 0 /\ Truthy(grid.repos) /\ view.v = "Ready"

\* the path of the request being handled matches the '/popular/:id' route
RequestPathIsGrid == url # NoUrl /\ SwitchComponent(Pathname(url)) = "Grid"

\* C11: for a request path that matches '/popular/:id' (further segments or
\* a trailing slash included) the language key of the server's Data Loader
\* call is the route parameter id the Grid uses for that path, so the
\* payload in the global slot holds the repositories of the Grid's language.
C11_Claim ==
    /\ (RequestPathIsGrid /\ srvLang # <<>>) =>
         srvLang[1] = SwitchParams(Pathname(url))
    /\ (bpc = "loaded" /\ SwitchComponent(location) = "Grid" /\ Truthy(window.value)) =>
         \A i \in 1..Len(window.value.items) :
             window.value.items[i].language = SwitchParams(location)

====
